---- MODULE Spec2Model ----
(***************************************************************************)
(* Model of data_reader/models.py: the Modbus RTU codec (ModbusRTU) and    *)
(* the UDP transport with its bounded retry loop (UdpProtocol).            *)
(*                                                                         *)
(* A session is one UdpProtocol object together with the transductor it    *)
(* talks to.  The send/receive loop of handle_messages_via_socket is       *)
(* modelled one socket operation at a time; the network (what sendto and   *)
(* recvfrom do) is the environment.  sendto on a UDP socket is modelled    *)
(* as succeeding or raising socket.error; recvfrom as returning a          *)
(* datagram, raising socket.timeout or raising socket.error.               *)
(***************************************************************************)
EXTENDS Integers, Sequences, FiniteSets, TLC

(***************************************************************************)
(* Bounds of the model.                                                    *)
(***************************************************************************)
MaxRegs == 2        \* longest register list of a transductor model
MaxCalls == 2       \* start_communication calls per session

Sessions == {1, 2}

(***************************************************************************)
(* Program constants.                                                      *)
(***************************************************************************)
max_receive_attempts == 3
int_addr == 0
float_addr == 1
CrcInit == 65535        \* 0xFFFF
CrcPoly == 40961        \* 0xA001

(***************************************************************************)
(* Register descriptors (address, type) a transductor model may hold: an   *)
(* integer register, a float register and one with a wrong type tag.       *)
(***************************************************************************)
RegisterPool == { <<16, 0>>, <<288, 1>>, <<32, 2>> }

RegisterLists == UNION { [1..n -> RegisterPool] : n \in 0..MaxRegs }

(***************************************************************************)
(* Codec: CRC16 and frame construction.                                    *)
(***************************************************************************)
\* x ^ p for a power of two p
FlipBit(x, p) == IF (x \div p) % 2 = 1 THEN x - p ELSE x + p

\* a ^ b on naturals: the bits of b, lowest first (p is the bit's weight)
RECURSIVE XorFrom(_, _, _)
XorFrom(a, b, p) ==
    IF b = 0 THEN a
    ELSE XorFrom(IF b % 2 = 1 THEN FlipBit(a, p) ELSE a, b \div 2, 2 * p)

Xor(a, b) == XorFrom(a, b, 1)

\* one round of the inner loop: lsb = crc & 1; crc >>= 1; if lsb: crc ^= 0xA001
CrcShift(crc) ==
    IF crc % 2 = 1 THEN Xor(crc \div 2, CrcPoly) ELSE crc \div 2

RECURSIVE CrcBits(_, _)
CrcBits(crc, n) == IF n = 0 THEN crc ELSE CrcBits(CrcShift(crc), n - 1)

\* the outer loop from byte k on; crc is a 16-bit accumulator throughout
RECURSIVE CrcFold(_, _, _)
CrcFold(crc, msg, k) ==
    IF crc \in 0..65535 /\ k <= Len(msg)
    THEN CrcFold(CrcBits(Xor(crc, msg[k]), 8), msg, k + 1)
    ELSE crc

_computate_crc(packaged_message) == CrcFold(CrcInit, packaged_message, 1)

_check_crc(packaged_message) == _computate_crc(packaged_message) = 0

\* variant of PackLE16: the high byte first
PackHighFirst(v) == << v \div 256, v % 256 >>

\* struct.pack(">H", v) and struct.pack("<H", v)
PackBE16(v) == << v \div 256, v % 256 >>
PackLE16(v) == << v % 256, v \div 256 >>

\* struct.pack("2B", 0x01, 0x03) + struct.pack(">2H", address, quantity)
PackRequest(address, quantity) ==
    << 1, 3 >> \o PackBE16(address) \o PackBE16(quantity)

\* the body of the loop of create_messages for one valid register
BuildMessage(register) ==
    LET packaged_message ==
            IF register[2] = int_addr
            THEN PackRequest(register[1], 1)
            ELSE PackRequest(register[1], 2)
    IN  packaged_message \o PackLE16(_computate_crc(packaged_message))

ValidType(register) == register[2] = int_addr \/ register[2] = float_addr

\* the message of every valid register of the pool
Requests ==
    [register \in { r \in RegisterPool : ValidType(r) } |-> BuildMessage(register)]

\* variant of CreateFrom: a register of a wrong type is skipped
RECURSIVE CreateSkipping(_, _, _)
CreateSkipping(register_addresses, k, frames) ==
    IF k > Len(register_addresses)
    THEN [raised |-> FALSE, messages |-> frames]
    ELSE CreateSkipping(register_addresses, k + 1,
                        IF ValidType(register_addresses[k])
                        THEN Append(frames, Requests[register_addresses[k]])
                        ELSE frames)

\* create_messages: the frames in register order, or the exception raised at
\* the first register whose type is neither int_addr nor float_addr
RECURSIVE CreateFrom(_, _, _)
CreateFrom(register_addresses, k, frames) ==
    IF k > Len(register_addresses)
    THEN [raised |-> FALSE, messages |-> frames]
    ELSE IF ValidType(register_addresses[k])
    THEN CreateFrom(register_addresses, k + 1,
                    Append(frames, Requests[register_addresses[k]]))
    ELSE [raised |-> TRUE, messages |-> << >>]

create_messages(register_addresses) == CreateFrom(register_addresses, 1, << >>)

(***************************************************************************)
(* State.  Every variable is a function of the session.                    *)
(***************************************************************************)
VARIABLES
    live,               \* the UdpProtocol objects that were constructed
    registers,          \* transductor.model.register_addresses
    broken,             \* transductor.broken
    socket,             \* self.socket: 0 is None, n > 0 the n-th socket made
    receive_attempts,   \* self.receive_attempts
    pc,                 \* where the call is: idle, loop, send, recv, done
    messages_to_send,   \* start_communication / manage_received_messages
    received_messages,  \* manage_received_messages
    idx,                \* handle_messages_via_socket: position of the for loop
    messages,           \* handle_messages_via_socket
    message_received,   \* handle_messages_via_socket
    outcome,            \* how the call ended
    calls,              \* history: calls started on the session
    sockets_made,       \* history: create_socket calls of the session
    attempts_before,    \* history: receive_attempts when the call started
    pass_ends,          \* history: how each pass of the call ended
    sent,               \* history: datagrams sent per request of the call
    log,                \* history: what recvfrom gave per request of the pass
    byteorder,          \* sys.byteorder of the host
    op,                 \* codec: the operation applied (none, crc, int, float)
    message_received_data, \* codec: the byte sequence the operation is given
    unpacked,           \* codec: the bytes handed to struct.unpack
    returned_value      \* codec: the value the operation returns

device == << registers, broken >>
session == << socket, receive_attempts >>
locals == << pc, messages_to_send, received_messages, idx, messages,
             message_received, outcome >>
history == << calls, sockets_made, attempts_before, pass_ends, sent, log >>
codec == << byteorder, op, message_received_data, unpacked,
            returned_value >>
vars == << live, device, session, locals, history, codec >>

\* Python values: None or a list; an unbound or a bound local
None == [none |-> TRUE, list |-> << >>]
List(l) == [none |-> FALSE, list |-> l]
Unbound == [bound |-> FALSE, data |-> << >>]
Bound(d) == [bound |-> TRUE, data |-> d]

\* Python truth value of a list or None
Truthy(v) == ~v.none /\ v.list # << >>

(***************************************************************************)
(* The network: the datagrams recvfrom may return after a request was      *)
(* sent.  The device answers a read of q registers with 2q data bytes      *)
(* (here the address bytes of the request, once per register) and a CRC,   *)
(* and the datagram arrives intact or with its CRC damaged.                *)
(***************************************************************************)
RECURSIVE Words(_, _)
Words(w, q) == IF q = 0 THEN << >> ELSE w \o Words(w, q - 1)

DeviceReply(request) ==
    LET q == request[5] * 256 + request[6]
        body == << request[1], request[2], 2 * q >>
                    \o Words(<< request[3], request[4] >>, q)
    IN  body \o PackLE16(_computate_crc(body))

Damaged(datagram) ==
    [datagram EXCEPT ![Len(datagram)] = (@ + 1) % 256]

\* the reply to every request of the pool
Replies ==
    [request \in { Requests[r] : r \in DOMAIN Requests } |-> DeviceReply(request)]

Datagrams(request) == { Replies[request], Damaged(Replies[request]) }

(***************************************************************************)
(* UdpProtocol: the decisions of the code.                                 *)
(***************************************************************************)
\* variant of SocketMissing: a socket is made by every call
SocketAlwaysMade(sock) == TRUE

\* start_communication: if self.socket is None
SocketMissing(sock) == sock = 0

\* reset_receive_attempts
reset_receive_attempts == 0

\* variant of LoopContinues: the bound is tested with <=
LoopContinuesOneMore(received, attempts) ==
    ~Truthy(received) /\ attempts <= max_receive_attempts

\* variant of LoopContinues: the loop goes on while the last pass gave None
LoopContinuesOnNone(received, attempts) ==
    received.none /\ attempts < max_receive_attempts

\* while not received_messages and self.receive_attempts < self.max_receive_attempts
LoopContinues(received, attempts) ==
    ~Truthy(received) /\ attempts < max_receive_attempts

\* variant of AttemptsAfterPass: every pass is counted
AttemptsAlwaysCounted(received, attempts) == attempts + 1

\* if not received_messages: self.receive_attempts += 1
AttemptsAfterPass(received, attempts) ==
    IF ~Truthy(received) THEN attempts + 1 ELSE attempts

\* variant of RaisesBroken: the broken flag is not looked at
RaisesBrokenAnyway(attempts, is_broken) == attempts = max_receive_attempts

\* if self.receive_attempts == self.max_receive_attempts
\*    and not self.transductor.broken: raise BrokenTransductorException
RaisesBroken(attempts, is_broken) ==
    attempts = max_receive_attempts /\ ~is_broken

\* no call was made yet on any session
Fresh ==
    /\ socket = [s \in Sessions |-> 0]
    /\ receive_attempts = [s \in Sessions |-> 0]
    /\ pc = [s \in Sessions |-> "idle"]
    /\ messages_to_send = [s \in Sessions |-> << >>]
    /\ received_messages = [s \in Sessions |-> List(<< >>)]
    /\ idx = [s \in Sessions |-> 0]
    /\ messages = [s \in Sessions |-> << >>]
    /\ message_received = [s \in Sessions |-> Unbound]
    /\ outcome = [s \in Sessions |-> "none"]
    /\ calls = [s \in Sessions |-> 0]
    /\ sockets_made = [s \in Sessions |-> 0]
    /\ attempts_before = [s \in Sessions |-> 0]
    /\ pass_ends = [s \in Sessions |-> << >>]
    /\ sent = [s \in Sessions |-> << >>]
    /\ log = [s \in Sessions |-> << >>]

\* the codec was not used yet
CodecUnused ==
    /\ op = "none"
    /\ message_received_data = << >>
    /\ unpacked = << >>
    /\ returned_value = 0

Init ==
    /\ live = {1}
    /\ registers \in [Sessions -> RegisterLists]
    /\ \A s \in Sessions \ live : registers[s] = << >>
    /\ broken \in [Sessions -> BOOLEAN]
    /\ \A s \in Sessions \ live : broken[s] = FALSE
    /\ Fresh
    /\ byteorder = "little"
    /\ CodecUnused

\* variant of StartCommunication: the counter is left as the last call left it
StartCommunicationNoReset(s) ==
    /\ s \in live
    /\ pc[s] \in {"idle", "done"}
    /\ calls[s] < MaxCalls
    /\ LET built == create_messages(registers[s])
       IN  /\ IF SocketMissing(socket[s])
              THEN /\ sockets_made' = [sockets_made EXCEPT ![s] = @ + 1]
                   /\ socket' = [socket EXCEPT ![s] = sockets_made[s] + 1]
              ELSE UNCHANGED << socket, sockets_made >>
           /\ messages_to_send' = [messages_to_send EXCEPT ![s] = built.messages]
           /\ sent' = [sent EXCEPT ![s] = [i \in 1..Len(built.messages) |-> 0]]
           /\ IF built.raised
              THEN /\ outcome' = [outcome EXCEPT ![s] = "RegisterAddressException"]
                   /\ pc' = [pc EXCEPT ![s] = "done"]
              ELSE /\ outcome' = [outcome EXCEPT ![s] = "none"]
                   /\ pc' = [pc EXCEPT ![s] = "loop"]
    /\ received_messages' = [received_messages EXCEPT ![s] = List(<< >>)]
    /\ idx' = [idx EXCEPT ![s] = 0]
    /\ messages' = [messages EXCEPT ![s] = << >>]
    /\ message_received' = [message_received EXCEPT ![s] = Unbound]
    /\ calls' = [calls EXCEPT ![s] = @ + 1]
    /\ attempts_before' = [attempts_before EXCEPT ![s] = receive_attempts[s]]
    /\ pass_ends' = [pass_ends EXCEPT ![s] = << >>]
    /\ log' = [log EXCEPT ![s] = << >>]
    /\ UNCHANGED << codec, live, device, receive_attempts >>

(***************************************************************************)
(* start_communication up to the retry loop: the socket is made if there   *)
(* is none, the requests are built (RegisterAddressException leaves the    *)
(* call at once), and manage_received_messages resets the counter.         *)
(***************************************************************************)
StartCommunication(s) ==
    /\ s \in live
    /\ pc[s] \in {"idle", "done"}
    /\ calls[s] < MaxCalls
    /\ LET built == create_messages(registers[s])
       IN  /\ IF SocketMissing(socket[s])
              THEN /\ sockets_made' = [sockets_made EXCEPT ![s] = @ + 1]
                   /\ socket' = [socket EXCEPT ![s] = sockets_made[s] + 1]
              ELSE UNCHANGED << socket, sockets_made >>
           /\ messages_to_send' = [messages_to_send EXCEPT ![s] = built.messages]
           /\ sent' = [sent EXCEPT ![s] = [i \in 1..Len(built.messages) |-> 0]]
           /\ IF built.raised
              THEN /\ outcome' = [outcome EXCEPT ![s] = "RegisterAddressException"]
                   /\ pc' = [pc EXCEPT ![s] = "done"]
                   /\ UNCHANGED receive_attempts
              ELSE /\ outcome' = [outcome EXCEPT ![s] = "none"]
                   /\ pc' = [pc EXCEPT ![s] = "loop"]
                   /\ receive_attempts' =
                          [receive_attempts EXCEPT ![s] = reset_receive_attempts]
    /\ received_messages' = [received_messages EXCEPT ![s] = List(<< >>)]
    /\ idx' = [idx EXCEPT ![s] = 0]
    /\ messages' = [messages EXCEPT ![s] = << >>]
    /\ message_received' = [message_received EXCEPT ![s] = Unbound]
    /\ calls' = [calls EXCEPT ![s] = @ + 1]
    /\ attempts_before' = [attempts_before EXCEPT ![s] = receive_attempts[s]]
    /\ pass_ends' = [pass_ends EXCEPT ![s] = << >>]
    /\ log' = [log EXCEPT ![s] = << >>]
    /\ UNCHANGED << codec, live, device >>

\* variant of PassReturns: receive_attempts is one counter for all sessions
PassReturnsShared(s, value, how) ==
    /\ received_messages' = [received_messages EXCEPT ![s] = value]
    /\ receive_attempts' =
           [t \in Sessions |-> AttemptsAfterPass(value, receive_attempts[s])]
    /\ pass_ends' = [pass_ends EXCEPT ![s] = Append(@, how)]
    /\ pc' = [pc EXCEPT ![s] = "loop"]
    /\ UNCHANGED outcome

\* handle_messages_via_socket returns `value`: back in the retry loop
PassReturns(s, value, how) ==
    /\ received_messages' = [received_messages EXCEPT ![s] = value]
    /\ receive_attempts' =
           [receive_attempts EXCEPT ![s] = AttemptsAfterPass(value, @)]
    /\ pass_ends' = [pass_ends EXCEPT ![s] = Append(@, how)]
    /\ pc' = [pc EXCEPT ![s] = "loop"]
    /\ UNCHANGED outcome

\* variant of BeginPass: a pass after the first goes on from the frame the
\* last one stopped at, with what was collected
BeginPassResuming(s) ==
    /\ s \in live
    /\ pc[s] = "loop"
    /\ LoopContinues(received_messages[s], receive_attempts[s])
    /\ message_received' = [message_received EXCEPT ![s] = Unbound]
    /\ IF messages_to_send[s] = << >>
       THEN /\ PassReturns(s, List(<< >>), "list")
            /\ UNCHANGED << idx, messages, log >>
       ELSE /\ idx' = [idx EXCEPT ![s] = IF @ = 0 THEN 1 ELSE @]
            /\ pc' = [pc EXCEPT ![s] = "send"]
            /\ UNCHANGED << received_messages, receive_attempts, pass_ends,
                            outcome, messages, log >>
    /\ UNCHANGED << codec, live, device, socket, messages_to_send, calls,
                    sockets_made, attempts_before, sent >>

\* the retry loop goes round: handle_messages_via_socket is entered
BeginPass(s) ==
    /\ s \in live
    /\ pc[s] = "loop"
    /\ LoopContinues(received_messages[s], receive_attempts[s])
    /\ messages' = [messages EXCEPT ![s] = << >>]
    /\ message_received' = [message_received EXCEPT ![s] = Unbound]
    /\ log' = [log EXCEPT ![s] = << >>]
    /\ IF messages_to_send[s] = << >>
       THEN /\ PassReturns(s, List(<< >>), "list")
            /\ UNCHANGED idx
       ELSE /\ idx' = [idx EXCEPT ![s] = 1]
            /\ pc' = [pc EXCEPT ![s] = "send"]
            /\ UNCHANGED << received_messages, receive_attempts, pass_ends,
                            outcome >>
    /\ UNCHANGED << codec, live, device, socket, messages_to_send, calls,
                    sockets_made, attempts_before, sent >>

\* variant of EndLoop: the transductor is marked broken when the call raises
EndLoopMarksBroken(s) ==
    /\ s \in live
    /\ pc[s] = "loop"
    /\ ~LoopContinues(received_messages[s], receive_attempts[s])
    /\ outcome' = [outcome EXCEPT ![s] =
                       IF RaisesBroken(receive_attempts[s], broken[s])
                       THEN "BrokenTransductorException" ELSE "returned"]
    /\ broken' = [broken EXCEPT ![s] =
                      @ \/ RaisesBroken(receive_attempts[s], broken[s])]
    /\ pc' = [pc EXCEPT ![s] = "done"]
    /\ UNCHANGED << codec, live, registers, session, messages_to_send,
                    received_messages, idx, messages, message_received,
                    history >>

\* the retry loop ends: raise BrokenTransductorException or return
EndLoop(s) ==
    /\ s \in live
    /\ pc[s] = "loop"
    /\ ~LoopContinues(received_messages[s], receive_attempts[s])
    /\ outcome' = [outcome EXCEPT ![s] =
                       IF RaisesBroken(receive_attempts[s], broken[s])
                       THEN "BrokenTransductorException" ELSE "returned"]
    /\ pc' = [pc EXCEPT ![s] = "done"]
    /\ UNCHANGED << codec, live, device, session, messages_to_send, received_messages,
                    idx, messages, message_received, history >>

(***************************************************************************)
(* handle_messages_via_socket, one socket operation at a time.             *)
(***************************************************************************)
\* what recvfrom gave for one request: a datagram, or nothing
Got(d) == [got |-> TRUE, data |-> d]
Nothing == [got |-> FALSE, data |-> << >>]

\* messages.append(message_received[0]) and the next round of the for loop;
\* reading message_received while it is unbound raises UnboundLocalError,
\* which nothing catches
AppendReceived(s, received, entry) ==
    /\ log' = [log EXCEPT ![s] = Append(@, entry)]
    /\ IF ~received.bound
       THEN /\ outcome' = [outcome EXCEPT ![s] = "UnboundLocalError"]
            /\ pc' = [pc EXCEPT ![s] = "done"]
            /\ pass_ends' = [pass_ends EXCEPT ![s] = Append(@, "unbound")]
            /\ UNCHANGED << messages, idx, received_messages, receive_attempts >>
       ELSE /\ messages' = [messages EXCEPT ![s] = Append(@, received.data)]
            /\ IF idx[s] = Len(messages_to_send[s])
               THEN /\ PassReturns(s, List(Append(messages[s], received.data)),
                                   "list")
                    /\ UNCHANGED idx
               ELSE /\ idx' = [idx EXCEPT ![s] = @ + 1]
                    /\ pc' = [pc EXCEPT ![s] = "send"]
                    /\ UNCHANGED << received_messages, receive_attempts,
                                    pass_ends, outcome >>

\* variant of SendTo: the requests are sent one after the other, and the
\* replies are waited for after the last
SendToPipelined(s) ==
    /\ s \in live
    /\ pc[s] = "send"
    /\ sent' = [sent EXCEPT ![s][idx[s]] = @ + 1]
    /\ IF idx[s] < Len(messages_to_send[s])
       THEN idx' = [idx EXCEPT ![s] = @ + 1] /\ UNCHANGED pc
       ELSE pc' = [pc EXCEPT ![s] = "recv"] /\ UNCHANGED idx
    /\ UNCHANGED << codec, live, device, session, messages_to_send, received_messages,
                    messages, message_received, outcome, calls,
                    sockets_made, attempts_before, pass_ends, log >>

\* self.socket.sendto(message, ...) sends the datagram
SendTo(s) ==
    /\ s \in live
    /\ pc[s] = "send"
    /\ sent' = [sent EXCEPT ![s][idx[s]] = @ + 1]
    /\ pc' = [pc EXCEPT ![s] = "recv"]
    /\ UNCHANGED << codec, live, device, session, messages_to_send, received_messages,
                    idx, messages, message_received, outcome, calls,
                    sockets_made, attempts_before, pass_ends, log >>

\* self.socket.sendto raises socket.error: except socket.error: pass
SendError(s) ==
    /\ s \in live
    /\ pc[s] = "send"
    /\ AppendReceived(s, message_received[s], Nothing)
    /\ UNCHANGED << codec, live, device, socket, messages_to_send, message_received,
                    calls, sockets_made, attempts_before, sent >>

\* the datagrams that may arrive while the session waits in recvfrom
Arriving(s) ==
    IF pc[s] = "recv" THEN Datagrams(messages_to_send[s][idx[s]]) ELSE {}

\* variant of RecvFrom: a datagram that is not the reply with its CRC intact
\* is dropped, and the pass ends as on a timeout
RecvFromChecked(s, datagram) ==
    /\ s \in live
    /\ pc[s] = "recv"
    /\ message_received' = [message_received EXCEPT ![s] = Bound(datagram)]
    /\ IF datagram = Replies[messages_to_send[s][idx[s]]]
       THEN AppendReceived(s, Bound(datagram), Got(datagram))
       ELSE /\ log' = [log EXCEPT ![s] = Append(@, Got(datagram))]
            /\ PassReturns(s, None, "timeout")
            /\ UNCHANGED << messages, idx >>
    /\ UNCHANGED << codec, live, device, socket, messages_to_send, calls,
                    sockets_made, attempts_before, sent >>

\* message_received = self.socket.recvfrom(256) returns a datagram
RecvFrom(s, datagram) ==
    /\ s \in live
    /\ pc[s] = "recv"
    /\ message_received' = [message_received EXCEPT ![s] = Bound(datagram)]
    /\ AppendReceived(s, Bound(datagram), Got(datagram))
    /\ UNCHANGED << codec, live, device, socket, messages_to_send, calls,
                    sockets_made, attempts_before, sent >>

\* recvfrom raises socket.timeout: return None
RecvTimeout(s) ==
    /\ s \in live
    /\ pc[s] = "recv"
    /\ PassReturns(s, None, "timeout")
    /\ UNCHANGED << codec, live, device, socket, messages_to_send, idx, messages,
                    message_received, calls, sockets_made, attempts_before,
                    sent, log >>

\* recvfrom raises socket.error: except socket.error: pass
RecvError(s) ==
    /\ s \in live
    /\ pc[s] = "recv"
    /\ AppendReceived(s, message_received[s], Nothing)
    /\ UNCHANGED << codec, live, device, socket, messages_to_send, message_received,
                    calls, sockets_made, attempts_before, sent >>

(***************************************************************************)
(* The caller, between two calls: it has taken the result or the           *)
(* exception of the last call, and may persist the broken flag or edit     *)
(* the register list of the transductor model.                             *)
(***************************************************************************)
CallOver(s) ==
    /\ pc' = [pc EXCEPT ![s] = "idle"]
    /\ outcome' = [outcome EXCEPT ![s] = "none"]
    /\ messages_to_send' = [messages_to_send EXCEPT ![s] = << >>]
    /\ received_messages' = [received_messages EXCEPT ![s] = List(<< >>)]
    /\ idx' = [idx EXCEPT ![s] = 0]
    /\ messages' = [messages EXCEPT ![s] = << >>]
    /\ message_received' = [message_received EXCEPT ![s] = Unbound]
    /\ attempts_before' = [attempts_before EXCEPT ![s] = 0]
    /\ pass_ends' = [pass_ends EXCEPT ![s] = << >>]
    /\ sent' = [sent EXCEPT ![s] = << >>]
    /\ log' = [log EXCEPT ![s] = << >>]

SetBroken(s, flag) ==
    /\ s \in live
    /\ pc[s] \in {"idle", "done"}
    /\ calls[s] < MaxCalls
    /\ broken[s] # flag
    /\ broken' = [broken EXCEPT ![s] = flag]
    /\ CallOver(s)
    /\ UNCHANGED << codec, live, registers, session, calls, sockets_made >>

\* one edit of the register list: a descriptor is added at the end, or the
\* last one is removed
Edits(list) ==
    { Append(list, register) : register \in
          IF Len(list) < MaxRegs THEN RegisterPool ELSE {} }
    \cup (IF list = << >> THEN {} ELSE { SubSeq(list, 1, Len(list) - 1) })

EditRegisters(s, list) ==
    /\ s \in live
    /\ pc[s] \in {"idle", "done"}
    /\ calls[s] < MaxCalls
    /\ list \in Edits(registers[s])
    /\ registers' = [registers EXCEPT ![s] = list]
    /\ CallOver(s)
    /\ UNCHANGED << codec, live, broken, session, calls, sockets_made >>

Next ==
    \E s \in Sessions :
        \/ StartCommunication(s)
        \/ BeginPass(s)
        \/ EndLoop(s)
        \/ SendTo(s)
        \/ SendError(s)
        \/ \E datagram \in Arriving(s) : RecvFrom(s, datagram)
        \/ RecvTimeout(s)
        \/ RecvError(s)
        \/ \E flag \in BOOLEAN : SetBroken(s, flag)
        \/ \E list \in RegisterLists : EditRegisters(s, list)

Spec == Init /\ [][Next]_vars

\* a step of the call of session s in progress
CallStep(s) ==
    \/ BeginPass(s)
    \/ EndLoop(s)
    \/ SendTo(s)
    \/ SendError(s)
    \/ \E datagram \in Arriving(s) : RecvFrom(s, datagram)
    \/ RecvTimeout(s)
    \/ RecvError(s)

\* the thread of a call keeps running: sendto returns or raises, and
\* recvfrom, on a socket with a timeout, returns or raises
SpecFair == Spec /\ \A s \in Sessions : WF_vars(CallStep(s))

(***************************************************************************)
(* Codec: decoding of a response, and the codec applied to inputs of its   *)
(* own.  The host's byte order is an input: struct.unpack("1h") and        *)
(* struct.unpack("1f") read their bytes in the host's order.  A float is   *)
(* represented by the four bytes of its IEEE-754 single-precision          *)
(* encoding, the most significant first.                                   *)
(***************************************************************************)
MaxMsgLen == 3      \* longest byte sequence handed to the CRC

ByteSamples == {0, 42, 64, 96, 255}

ByteOrders == {"little", "big"}

CrcInputs == UNION { [1..n -> ByteSamples] : n \in 0..MaxMsgLen }

\* msg[i], msg[i + 1] = msg[i + 1], msg[i], with i counted from 0
SwapBytes(msg, i) == [msg EXCEPT ![i + 1] = msg[i + 2], ![i + 2] = msg[i + 1]]

\* message_received_data[3:-2]
Payload(data) == SubSeq(data, 4, Len(data) - 2)

\* variant of IntLoop: the bytes are swapped whatever the host
RECURSIVE IntLoopAlwaysSwaps(_, _, _, _)
IntLoopAlwaysSwaps(msg, i, n_bytes, order) ==
    IF i >= n_bytes THEN msg
    ELSE IntLoopAlwaysSwaps(SwapBytes(msg, i), i + 2, n_bytes, order)

\* for i in range(0, n_bytes, 2) of get_int_value_from_response, from i on
RECURSIVE IntLoop(_, _, _, _)
IntLoop(msg, i, n_bytes, order) ==
    IF i >= n_bytes THEN msg
    ELSE IntLoop(IF order = "little" THEN SwapBytes(msg, i) ELSE msg,
                 i + 2, n_bytes, order)

\* struct.unpack("1h", msg)[0] for a msg of 2 bytes
UnpackShort(msg, order) ==
    LET unsigned == IF order = "little"
                    THEN msg[1] + 256 * msg[2]
                    ELSE 256 * msg[1] + msg[2]
    IN  IF unsigned >= 32768 THEN unsigned - 65536 ELSE unsigned

\* the bytes get_int_value_from_response hands to struct.unpack
IntBytes(data, order) == IntLoop(Payload(data), 0, data[3], order)

get_int_value_from_response(data, order) ==
    UnpackShort(IntBytes(data, order), order)

\* variant of FloatSwap: the big-endian branch reverses the four bytes
FloatSwapReversing(msg, i, order) ==
    IF order = "little"
    THEN SwapBytes(SwapBytes(msg, i), i + 2)
    ELSE [msg EXCEPT ![i + 1] = msg[i + 4], ![i + 2] = msg[i + 3],
                     ![i + 3] = msg[i + 2], ![i + 4] = msg[i + 1]]

\* the body of the loop of get_float_value_from_response, i counted from 0
FloatSwap(msg, i, order) ==
    IF order = "little"
    THEN SwapBytes(SwapBytes(msg, i), i + 2)
    ELSE [msg EXCEPT ![i + 1] = msg[i + 3], ![i + 2] = msg[i + 4],
                     ![i + 3] = msg[i + 1], ![i + 4] = msg[i + 2]]

\* for i in range(0, n_bytes, 4) of get_float_value_from_response, from i on
RECURSIVE FloatLoop(_, _, _, _)
FloatLoop(msg, i, n_bytes, order) ==
    IF i >= n_bytes THEN msg
    ELSE FloatLoop(FloatSwap(msg, i, order), i + 4, n_bytes, order)

\* struct.unpack("1f", msg)[0] for a msg of 4 bytes: the four bytes of the
\* float's encoding, the most significant (sign and exponent) first
UnpackFloat(msg, order) ==
    IF order = "little"
    THEN << msg[4], msg[3], msg[2], msg[1] >>
    ELSE << msg[1], msg[2], msg[3], msg[4] >>

\* the bytes get_float_value_from_response hands to struct.unpack
FloatBytes(data, order) == FloatLoop(Payload(data), 0, data[3], order)

get_float_value_from_response(data, order) ==
    UnpackFloat(FloatBytes(data, order), order)

\* a response of the device carrying the data bytes given
ResponseFrame(data) ==
    LET body == << 1, 3, Len(data) >> \o data
    IN  body \o PackLE16(_computate_crc(body))

\* a message gets its CRC appended as create_messages appends it, and the
\* CRC of the whole is computed as _check_crc computes it
CheckOwnCrc(msg) ==
    /\ op = "none"
    /\ op' = "crc"
    /\ message_received_data' = msg \o PackLE16(_computate_crc(msg))
    /\ unpacked' = << >>
    /\ returned_value' = _computate_crc(message_received_data')
    /\ UNCHANGED << byteorder, live, device, session, locals, history >>

\* get_int_value_from_response on a response with two data bytes
GetInt(data) ==
    /\ op = "none"
    /\ op' = "int"
    /\ message_received_data' = ResponseFrame(data)
    /\ unpacked' = IntBytes(message_received_data', byteorder)
    /\ returned_value' =
           get_int_value_from_response(message_received_data', byteorder)
    /\ UNCHANGED << byteorder, live, device, session, locals, history >>

\* get_float_value_from_response on a response with four data bytes
GetFloat(data) ==
    /\ op = "none"
    /\ op' = "float"
    /\ message_received_data' = ResponseFrame(data)
    /\ unpacked' = FloatBytes(message_received_data', byteorder)
    /\ returned_value' =
           get_float_value_from_response(message_received_data', byteorder)
    /\ UNCHANGED << byteorder, live, device, session, locals, history >>

InitCodec ==
    /\ live = {}
    /\ registers = [s \in Sessions |-> << >>]
    /\ broken = [s \in Sessions |-> FALSE]
    /\ Fresh
    /\ byteorder \in ByteOrders
    /\ CodecUnused

NextCodec ==
    \/ \E msg \in CrcInputs : CheckOwnCrc(msg)
    \/ \E data \in [1..2 -> ByteSamples] : GetInt(data)
    \/ \E data \in [1..4 -> ByteSamples] : GetFloat(data)

SpecCodec == InitCodec /\ [][NextCodec]_vars

(***************************************************************************)
(* Two sessions, each with a UdpProtocol object and a transductor of its   *)
(* own, make their calls with their socket operations interleaved.         *)
(***************************************************************************)
PairRegisters == << << <<16, 0>>, <<288, 1>> >>, << <<288, 1>> >> >>

InitPair ==
    /\ live = Sessions
    /\ registers = [s \in Sessions |-> PairRegisters[s]]
    /\ broken \in [Sessions -> BOOLEAN]
    /\ Fresh
    /\ byteorder = "little"
    /\ CodecUnused

NextPair ==
    \E s \in Sessions :
        \/ StartCommunication(s)
        \/ BeginPass(s)
        \/ EndLoop(s)
        \/ SendTo(s)
        \/ SendError(s)
        \/ \E datagram \in Arriving(s) : RecvFrom(s, datagram)
        \/ RecvTimeout(s)
        \/ RecvError(s)

SpecPair == InitPair /\ [][NextPair]_vars

(***************************************************************************)
(* Properties.                                                             *)
(***************************************************************************)
\* the call of session s has ended by returning received_messages[s]
Returned(s) == pc[s] = "done" /\ outcome[s] = "returned"

\* the call of session s has ended by raising BrokenTransductorException
RaisedBroken(s) == pc[s] = "done" /\ outcome[s] = "BrokenTransductorException"

\* the retry loop of the call of session s has ended
LoopEnded(s) == Returned(s) \/ RaisedBroken(s)

\* the passes of the call begun so far
PassesBegun(s) ==
    Len(pass_ends[s]) + (IF pc[s] \in {"send", "recv"} THEN 1 ELSE 0)

\* the datagrams sent by the call so far
RECURSIVE Sum(_)
Sum(counts) ==
    IF counts = << >> THEN 0 ELSE Head(counts) + Sum(Tail(counts))

\* recvfrom gave nothing for request i of the current (or last) pass
Skipped(s, i) == i \in DOMAIN log[s] /\ ~log[s][i].got

\* C1: a call that returns a list returns one entry per request built, and
\* entry i is the datagram received in reply to request i of the last pass.
C1_OneResponsePerRequest ==
    \A s \in live :
        (Returned(s) /\ ~received_messages[s].none) =>
            LET r == received_messages[s].list
            IN  /\ Len(r) = Len(messages_to_send[s])
                /\ Len(log[s]) = Len(r)
                /\ \A i \in DOMAIN r : log[s][i].got /\ r[i] = log[s][i].data

\* C2: the call raises BrokenTransductorException exactly when the retry loop
\* ended with receive_attempts = max_receive_attempts (all of that many passes
\* gave no responses) and the broken flag false; otherwise the loop's end
\* returns what the last pass collected, and a return with the flag false
\* carries a non-empty list.
C2_BrokenIffExhausted ==
    \A s \in live :
        /\ LoopEnded(s) =>
               (RaisedBroken(s) <=>
                    (receive_attempts[s] = max_receive_attempts /\ ~broken[s]))
        /\ (LoopEnded(s) /\ receive_attempts[s] = max_receive_attempts) =>
               /\ Len(pass_ends[s]) = max_receive_attempts
               /\ ~Truthy(received_messages[s])
        /\ (Returned(s) /\ ~broken[s]) =>
               /\ Truthy(received_messages[s])
               /\ received_messages[s].list = messages[s]
        /\ (pc[s] = "done" /\ ~LoopEnded(s)) =>
               \/ outcome[s] = "RegisterAddressException" /\ pass_ends[s] = << >>
               \/ /\ outcome[s] = "UnboundLocalError"
                  /\ pass_ends[s][Len(pass_ends[s])] = "unbound"

C2_Witness ==
    \E s \in live :
        /\ RaisedBroken(s)
        /\ messages_to_send[s] # << >>
        /\ Len(pass_ends[s]) = max_receive_attempts

\* every pass of the call so far ended in a timeout, and there was one
AllTimedOut(s) ==
    /\ pass_ends[s] # << >>
    /\ \A i \in DOMAIN pass_ends[s] : pass_ends[s][i] = "timeout"

\* C3: a call whose passes all time out makes exactly max_receive_attempts
\* passes, then raises BrokenTransductorException if the broken flag is
\* false and returns None (no responses) if it is true.
C3_AllTimeouts ==
    \A s \in live :
        /\ PassesBegun(s) <= max_receive_attempts
        /\ (pc[s] = "done" /\ AllTimedOut(s)) =>
               /\ Len(pass_ends[s]) = max_receive_attempts
               /\ receive_attempts[s] = max_receive_attempts
               /\ ~broken[s] => RaisedBroken(s)
               /\ broken[s] => (Returned(s) /\ received_messages[s] = None)

C3_Witness ==
    \E s \in live :
        /\ Returned(s)
        /\ AllTimedOut(s)
        /\ broken[s]
        /\ received_messages[s] = None

\* the call sent at least one request, and recvfrom gave a datagram for every
\* request of its first pass
FirstPassAllReplied(s) ==
    /\ messages_to_send[s] # << >>
    /\ pass_ends[s] # << >>
    /\ pass_ends[s][1] = "list"
    /\ \A i \in DOMAIN log[s] : log[s][i].got

\* the list returned holds, in request order, the reply received to each request
InRequestOrder(s) ==
    LET r == received_messages[s].list
    IN  /\ ~received_messages[s].none
        /\ Len(r) = Len(messages_to_send[s])
        /\ \A i \in DOMAIN r :
               /\ r[i] = log[s][i].data
               /\ r[i] \in Datagrams(messages_to_send[s][i])

\* what C4 says of the pass count, the datagrams and the result
OnePassOnly(s) ==
    /\ Len(pass_ends[s]) = 1
    /\ \A i \in DOMAIN sent[s] : sent[s][i] = 1
    /\ pc[s] = "done" => (Returned(s) /\ InRequestOrder(s))

\* C4 as stated: a call whose first pass gets a reply to every request
\* returns after that one pass with receive_attempts = 1, no request sent
\* twice, the responses in request order.
C4_AsStated ==
    \A s \in live :
        (pc[s] \in {"loop", "done"} /\ FirstPassAllReplied(s)) =>
            (receive_attempts[s] = 1 /\ OnePassOnly(s))

\* C4 amended: the same with receive_attempts = 0; the counter counts only
\* the passes that gave no responses.
C4_OnePassNoAttemptCounted ==
    \A s \in live :
        (pc[s] \in {"loop", "done"} /\ FirstPassAllReplied(s)) =>
            (receive_attempts[s] = 0 /\ OnePassOnly(s))

C4_Witness ==
    \E s \in live :
        /\ Returned(s)
        /\ FirstPassAllReplied(s)
        /\ Len(messages_to_send[s]) > 1

\* C5: after a socket.error at some request of the pass, no entry of the
\* list returned is anything but the datagram received for its own request.
C5_SkippedSlotNotReturned ==
    \A s \in live :
        (/\ Returned(s)
         /\ ~received_messages[s].none
         /\ \E i \in DOMAIN log[s] : Skipped(s, i)) =>
            \A j \in DOMAIN received_messages[s].list :
                /\ j \in DOMAIN log[s]
                /\ log[s][j].got
                /\ received_messages[s].list[j] = log[s][j].data

\* C6: a socket.error at any request of a pass, the first included, ends the
\* call with no error other than BrokenTransductorException.
C6_SoftFailure ==
    \A s \in live :
        (\E i \in DOMAIN log[s] : Skipped(s, i)) =>
            outcome[s] \in {"none", "returned", "BrokenTransductorException"}

HasWrongType(list) == \E i \in DOMAIN list : ~ValidType(list[i])

\* C7: with a register of a wrong type anywhere in the list the call ends at
\* once with RegisterAddressException: no request list, no datagram sent, no
\* pass, receive_attempts as it was, no BrokenTransductorException; and with
\* no such register the exception is not raised.
C7_WrongTypeRaises ==
    \A s \in live :
        pc[s] # "idle" =>
            IF HasWrongType(registers[s])
            THEN /\ pc[s] = "done"
                 /\ outcome[s] = "RegisterAddressException"
                 /\ messages_to_send[s] = << >>
                 /\ Sum(sent[s]) = 0
                 /\ pass_ends[s] = << >>
                 /\ receive_attempts[s] = attempts_before[s]
            ELSE outcome[s] # "RegisterAddressException"

C7_Witness ==
    \E s \in live :
        /\ outcome[s] = "RegisterAddressException"
        /\ Len(registers[s]) = 2
        /\ ValidType(registers[s][1])
        /\ receive_attempts[s] = max_receive_attempts

\* C8: a session has no socket before its first call and, from the first
\* call on, the one socket that call made: no later pass, retry or call
\* makes another.
C8_OneSocket ==
    \A s \in Sessions :
        /\ sockets_made[s] = (IF calls[s] = 0 THEN 0 ELSE 1)
        /\ socket[s] = sockets_made[s]

C8_Witness ==
    \E s \in live :
        /\ calls[s] > 1
        /\ pc[s] = "recv"
        /\ pass_ends[s] # << >>
        /\ socket[s] = 1

\* C9: no step of a call (a step that leaves the session in a call or at its
\* end) changes the broken flag of the transductor.
C9_BrokenNotWritten ==
    [][\A s \in Sessions : pc'[s] # "idle" => broken'[s] = broken[s]]_vars

C9_Witness ==
    \E s \in live :
        /\ RaisedBroken(s)
        /\ calls[s] > 1
        /\ ~broken[s]

\* C10: for a register list of valid types only, create_messages gives one
\* message per register, in order, of 8 bytes: 01, 03, the address and the
\* quantity (1 for an integer, 2 for a float) high byte first, and the CRC16
\* of these 6 bytes low byte first, so that _check_crc accepts the message.
C10_RequestFrames ==
    \A s \in live :
        (pc[s] = "loop" /\ pass_ends[s] = << >> /\ ~HasWrongType(registers[s])) =>
            /\ Len(messages_to_send[s]) = Len(registers[s])
            /\ \A i \in DOMAIN registers[s] :
                   LET f == messages_to_send[s][i]
                       register == registers[s][i]
                   IN  /\ Len(f) = 8
                       /\ \A j \in DOMAIN f : f[j] \in 0..255
                       /\ f[1] = 1 /\ f[2] = 3
                       /\ f[3] * 256 + f[4] = register[1]
                       /\ f[5] * 256 + f[6] =
                              (IF register[2] = int_addr THEN 1 ELSE 2)
                       /\ f[7] + 256 * f[8] = _computate_crc(SubSeq(f, 1, 6))
                       /\ _check_crc(f)
                       /\ register = << 16, 0 >> =>
                              f = << 1, 3, 0, 16, 0, 1, 133, 207 >>

C10_Witness ==
    \E s \in live :
        /\ pc[s] = "loop"
        /\ pass_ends[s] = << >>
        /\ registers[s] = << << 288, 1 >>, << 16, 0 >> >>
        /\ Len(messages_to_send[s]) = 2

\* C11: the CRC16 of any byte sequence followed by its own CRC16, low byte
\* first, is 0, so _check_crc accepts it.
C11_OwnCrcChecks ==
    op = "crc" =>
        LET n == Len(message_received_data)
            msg == SubSeq(message_received_data, 1, n - 2)
            crc == _computate_crc(msg)
        IN  /\ message_received_data[n - 1] = crc % 256
            /\ message_received_data[n] = crc \div 256
            /\ returned_value = 0
            /\ _check_crc(message_received_data)

C11_Witness ==
    /\ op = "crc"
    /\ Len(message_received_data) = 5
    /\ message_received_data[1] = 255
    /\ returned_value = 0

\* the signed 16-bit value whose two's-complement bytes are hi lo
Signed16(hi, lo) ==
    IF 256 * hi + lo >= 32768 THEN 256 * hi + lo - 65536 ELSE 256 * hi + lo

\* C12: decoding 01 03 02 hi lo crc as an integer gives the signed 16-bit
\* value with big-endian bytes hi lo, on a little-endian host (bytes swapped
\* before the native reading) and on a big-endian host (read as they are).
C12_IntDecoded ==
    op = "int" =>
        LET hi == message_received_data[4]
            lo == message_received_data[5]
        IN  /\ Len(message_received_data) = 7
            /\ message_received_data[3] = 2
            /\ returned_value = Signed16(hi, lo)
            /\ unpacked = (IF byteorder = "little"
                           THEN << lo, hi >> ELSE << hi, lo >>)
            /\ (hi = 0 /\ lo = 42) => returned_value = 42
            /\ (hi = 255 /\ lo = 255) => returned_value = -1

C12_Witness ==
    /\ op = "int"
    /\ byteorder = "big"
    /\ message_received_data[4] = 255
    /\ message_received_data[5] = 42
    /\ returned_value = -214

\* C13: of a float response with data bytes b0 b1 b2 b3, struct.unpack is
\* handed b1 b0 b3 b2 on a little-endian host and b2 b3 b0 b1 on a
\* big-endian host, and nothing of the header or the CRC.
C13_FloatBytes ==
    op = "float" =>
        LET b0 == message_received_data[4]
            b1 == message_received_data[5]
            b2 == message_received_data[6]
            b3 == message_received_data[7]
        IN  /\ Len(message_received_data) = 9
            /\ message_received_data[3] = 4
            /\ unpacked = (IF byteorder = "little"
                           THEN << b1, b0, b3, b2 >>
                           ELSE << b2, b3, b0, b1 >>)
            /\ returned_value = << b2, b3, b0, b1 >>

C13_Witness ==
    /\ op = "float"
    /\ byteorder = "big"
    /\ unpacked = << 0, 42, 64, 96 >>
    /\ Payload(message_received_data) = << 64, 96, 0, 42 >>

\* all that belongs to session s: its transductor, its UdpProtocol object,
\* the locals of its call and what the call did so far
SessionState(s) ==
    << registers[s], broken[s], socket[s], receive_attempts[s], pc[s],
       messages_to_send[s], received_messages[s], idx[s], messages[s],
       message_received[s], outcome[s], calls[s], sockets_made[s],
       attempts_before[s], pass_ends[s], sent[s], log[s] >>

\* the passes of the call of session s that gave no responses
FailedPasses(s) ==
    { i \in DOMAIN pass_ends[s] :
          \/ pass_ends[s][i] = "timeout"
          \/ pass_ends[s][i] = "list" /\ messages_to_send[s] = << >> }

\* counter, passes and result of session s are what its own device's
\* behaviour (pass_ends[s], log[s]) makes them
AsAlone(s) ==
    /\ socket[s] = (IF calls[s] = 0 THEN 0 ELSE 1)
    /\ sockets_made[s] = socket[s]
    /\ (calls[s] > 0 /\ outcome[s] # "RegisterAddressException") =>
           receive_attempts[s] = Cardinality(FailedPasses(s))
    /\ PassesBegun(s) <= max_receive_attempts
    /\ RaisedBroken(s) <=>
           /\ pc[s] = "done"
           /\ Cardinality(FailedPasses(s)) = max_receive_attempts
           /\ ~broken[s]
    /\ Returned(s) <=>
           /\ pc[s] = "done"
           /\ \/ /\ pass_ends[s][Len(pass_ends[s])] = "list"
                 /\ messages_to_send[s] # << >>
                 /\ received_messages[s] = List(messages[s])
                 /\ Len(messages[s]) = Len(messages_to_send[s])
              \/ /\ Cardinality(FailedPasses(s)) = max_receive_attempts
                 /\ broken[s]
                 /\ ~Truthy(received_messages[s])

\* C14: with the socket operations of two sessions interleaved, every step
\* changes the state of one session only (counter, socket, result of the
\* other are left as they were), and each session's counter, passes and
\* result are determined by its own device's behaviour as when run alone.
C14_SessionsIndependent ==
    /\ [](\A s \in live : AsAlone(s))
    /\ [][\E s \in Sessions :
              \A t \in Sessions \ {s} : SessionState(t)' = SessionState(t)]_vars

C14_Witness ==
    /\ live = Sessions
    /\ pc[1] = "recv" /\ receive_attempts[1] = 2 /\ idx[1] = 2
    /\ pc[2] = "recv" /\ receive_attempts[2] = 1
    /\ calls[1] = 2 /\ calls[2] = 1

\* the step is one of the call of session s in progress
SameCall(s) == calls'[s] = calls[s] /\ pc'[s] # "idle"

\* the step is a timeout of the recvfrom of session s
TimeoutStep(s) ==
    /\ pc[s] = "recv"
    /\ pass_ends'[s] = Append(pass_ends[s], "timeout")

\* C15: a timeout on frame i ends the pass: no frame is sent by that step or
\* before the next pass begins, the pass gives None whatever was collected,
\* and a pass, the first or a later one, begins at the first frame with
\* nothing collected.
C15_TimeoutAbortsPass ==
    [][\A s \in live :
           /\ TimeoutStep(s) =>
                  /\ received_messages'[s] = None
                  /\ pc'[s] = "loop"
                  /\ sent'[s] = sent[s]
           /\ (pc[s] = "loop" /\ SameCall(s)) => sent'[s] = sent[s]
           /\ (pc[s] = "loop" /\ pc'[s] = "send") =>
                  /\ idx'[s] = 1
                  /\ messages'[s] = << >>
           /\ (SameCall(s) /\ sent'[s] # sent[s]) =>
                  /\ pc[s] = "send"
                  /\ sent'[s] = [sent[s] EXCEPT ![idx[s]] = @ + 1]]_vars

C15_Witness ==
    \E s \in live :
        /\ pc[s] = "send"
        /\ idx[s] = 1
        /\ pass_ends[s] = << "timeout" >>
        /\ sent[s] = << 1, 1 >>
        /\ received_messages[s] = None

\* C16: receive_attempts is always within 0..max_receive_attempts, and it is
\* 0 when the retry loop of a call begins, whatever the last call left; so
\* the counter is the number of this call's passes without responses, and
\* the passes of a call are at most max_receive_attempts.
C16_AttemptsBoundedAndReset ==
    \A s \in live :
        /\ receive_attempts[s] \in 0..max_receive_attempts
        /\ attempts_before[s] \in 0..max_receive_attempts
        /\ (pc[s] = "loop" /\ pass_ends[s] = << >>) => receive_attempts[s] = 0
        /\ pc[s] \in {"loop", "send", "recv"} \/ LoopEnded(s) =>
               receive_attempts[s] = Cardinality(FailedPasses(s))
        /\ PassesBegun(s) <= max_receive_attempts

C16_Witness ==
    \E s \in live :
        /\ attempts_before[s] = max_receive_attempts
        /\ pc[s] = "loop"
        /\ pass_ends[s] = << >>
        /\ receive_attempts[s] = 0

\* C17: within a pass a request is sent only when no reply is awaited, the
\* wait for its reply follows at once, and request i is awaited only after
\* the i - 1 before it were done with (reply, or socket.error); a pass begins
\* only from the retry loop, where no pass is in progress.
C17_SendReceiveAlternate ==
    /\ [](\A s \in live :
              /\ pc[s] = "recv" =>
                     /\ idx[s] \in DOMAIN messages_to_send[s]
                     /\ Len(log[s]) = idx[s] - 1
                     /\ sent[s][idx[s]] >= 1
              /\ pc[s] = "send" => Len(log[s]) = idx[s] - 1)
    /\ [][\A s \in live :
              /\ (SameCall(s) /\ sent'[s] # sent[s]) =>
                     /\ pc[s] = "send" /\ pc'[s] = "recv"
                     /\ idx'[s] = idx[s]
                     /\ Sum(sent'[s]) = Sum(sent[s]) + 1
              /\ (pc[s] = "recv" /\ SameCall(s)) =>
                     /\ sent'[s] = sent[s]
                     /\ pc'[s] # "recv"
              /\ (pc'[s] = "send" /\ idx'[s] = 1 /\ SameCall(s)) =>
                     pc[s] = "loop"
              /\ (SameCall(s) /\ Len(pass_ends'[s]) > Len(pass_ends[s])) =>
                     pc'[s] \in {"loop", "done"}]_vars

C17_Witness ==
    \E s \in live :
        /\ pc[s] = "recv"
        /\ idx[s] = 2
        /\ sent[s] = << 1, 1 >>
        /\ Len(log[s]) = 1
        /\ log[s][1].got

\* C18: every call in progress ends, having begun at most
\* max_receive_attempts passes and sent at most that many datagrams for each
\* of its frames.
C18_CallTerminates ==
    /\ [](\A s \in live :
              /\ PassesBegun(s) <= max_receive_attempts
              /\ Sum(sent[s]) <= Len(messages_to_send[s]) * max_receive_attempts)
    /\ \A s \in Sessions :
           (pc[s] \in {"loop", "send", "recv"}) ~> (pc[s] = "done")

C18_Witness ==
    \E s \in live :
        /\ pc[s] = "done"
        /\ Len(pass_ends[s]) = max_receive_attempts
        /\ Len(messages_to_send[s]) = 2
        /\ Sum(sent[s]) = 2 * max_receive_attempts

\* the step is a recvfrom of session s that returns a datagram
GotStep(s) ==
    /\ pc[s] = "recv"
    /\ Len(log'[s]) = Len(log[s]) + 1
    /\ log'[s][Len(log'[s])].got

\* C19: a datagram that recvfrom returns is appended to the responses of the
\* pass whatever its CRC, the step does not count an attempt, and when it
\* is the reply to the last frame the pass gives the list, which the call
\* returns without another pass.
C19_CrcNotChecked ==
    /\ [][\A s \in live :
              GotStep(s) =>
                  /\ messages'[s] =
                         Append(messages[s], log'[s][Len(log'[s])].data)
                  /\ receive_attempts'[s] = receive_attempts[s]
                  /\ IF idx[s] = Len(messages_to_send[s])
                     THEN /\ pc'[s] = "loop"
                          /\ received_messages'[s] = List(messages'[s])
                          /\ pass_ends'[s] = Append(pass_ends[s], "list")
                     ELSE /\ pc'[s] = "send"
                          /\ idx'[s] = idx[s] + 1
                          /\ pass_ends'[s] = pass_ends[s]]_vars
    /\ [](\A s \in live :
              (pc[s] = "loop" /\ Truthy(received_messages[s])) =>
                  /\ ~ENABLED BeginPass(s)
                  /\ ENABLED EndLoop(s)
                  /\ ~RaisesBroken(receive_attempts[s], broken[s]))

C19_Witness ==
    \E s \in live :
        /\ Returned(s)
        /\ Len(pass_ends[s]) = 1
        /\ receive_attempts[s] = 0
        /\ Len(received_messages[s].list) = 2
        /\ _check_crc(received_messages[s].list[1])
        /\ ~_check_crc(received_messages[s].list[2])
        /\ log[s][2] = Got(received_messages[s].list[2])

\* C20: a call on an empty register list sends nothing, makes
\* max_receive_attempts passes that each give an empty list, ends with
\* receive_attempts = max_receive_attempts, and raises
\* BrokenTransductorException if the broken flag is false and returns the
\* empty list if it is true.
C20_EmptyRegisterList ==
    \A s \in live :
        (registers[s] = << >> /\ pc[s] \notin {"idle"}) =>
            /\ messages_to_send[s] = << >>
            /\ sent[s] = << >>
            /\ log[s] = << >>
            /\ pc[s] \in {"loop", "done"}
            /\ \A i \in DOMAIN pass_ends[s] : pass_ends[s][i] = "list"
            /\ receive_attempts[s] = Len(pass_ends[s])
            /\ pc[s] = "done" =>
                   /\ Len(pass_ends[s]) = max_receive_attempts
                   /\ receive_attempts[s] = max_receive_attempts
                   /\ ~broken[s] => RaisedBroken(s)
                   /\ broken[s] =>
                          (Returned(s) /\ received_messages[s] = List(<< >>))

C20_Witness ==
    \E s \in live :
        /\ registers[s] = << >>
        /\ RaisedBroken(s)
        /\ sent[s] = << >>
        /\ receive_attempts[s] = max_receive_attempts
        /\ pass_ends[s] = << "list", "list", "list" >>

====
